---- MODULE Spec2Model ----
(***************************************************************************)
(* Model of the lukso-relayer request handlers.                            *)
(*                                                                         *)
(*   src/src/handlers/v1/transaction.ts   execute, quota, createTransaction,*)
(*                                        ensureRemainingQuota             *)
(*   src/unnamed/part_001                 the earlier execute / quota      *)
(*   src/db/migrations/0005_transactions.sql   the transactions table      *)
(*                                                                         *)
(* The shared state is the PostgreSQL store (universal_profiles, quotas,   *)
(* approved_quotas, transactions) and the job queue.  Every request is a   *)
(* sequence of awaited steps; one action models one awaited step, so that  *)
(* requests interleave exactly where the event loop lets them.  A db.tx    *)
(* block commits or rolls back as a whole and is one action; a db.task     *)
(* block is not a transaction and is one action per query.                 *)
(***************************************************************************)
EXTENDS Integers, Sequences, FiniteSets, TLC

\* ---------------------------------------------------------------- bounds
NumRequests == 2
\* the most PENDING rows the ledger holds when a sequential run starts
MaxPending == 2

\* ------------------------------------------------------------- constants
\* monthly_gas given to a lazily created quota row
DefaultMonthlyGas == 650000
\* width of the freshness window of the quota handler, in milliseconds
FreshnessWindow == 5000
\* extractChannelId shifts the nonce right by this many bits
ChannelShift == 128
\* BigNumber.toNumber throws for a value of more than this many bits
SafeBits == 53
\* transactions.channel_id is INT: values below 2^31
IntBits == 31

NoRow == [none |-> TRUE]
\* the NULL of an INT column that an INSERT does not name; the handlers store
\* no negative number
Null == -1
WalletAddress == "relayer"

Requests == 1..NumRequests
\* every address the store may hold, and the addresses requests are made for
Profiles == {"upA", "upB", "upC"}
Callers == {"upA", "upB"}
Signers == {"s1"}
\* The nonce of a request is a string.  BigNumber.from reads a decimal and a
\* hexadecimal string of the same number as the same 256-bit value; the store
\* compares the strings.  A string is written as its encoding and the one-bits
\* of the high and of the low 128 bits of the number it spells.
NonceString(enc, hi, lo) == [enc |-> enc, hi |-> hi, lo |-> lo]
EmptyString == NonceString("", {}, {})
Nonces == {
    \* 1, in decimal and in hexadecimal
    NonceString("dec", {}, {0}), NonceString("hex", {}, {0}),
    \* (2 << 128) | 1
    NonceString("dec", {1}, {0}),
    \* channel 2^31 - 1 with every low bit set
    NonceString("dec", 0..30, 0..127),
    \* channel 2^31
    NonceString("dec", {31}, {0}),
    \* channel 2^53
    NonceString("dec", {53}, {0})
}
Estimates == {5, 700000}
OnChainCounts == {9}
\* the server clock when a quota request arrives, and the timestamps it may
\* carry (0 stands for a missing one), in milliseconds
Now == 10000
Timestamps == {0, 4000, 4999, 5000, 15000, 15001}

VARIABLES
    profiles,    \* universal_profiles: the set of addresses with a row
    quotas,      \* quotas: address -> row or NoRow (address is UNIQUE)
    approved,    \* approved_quotas: sequence of rows, index = id
    txs,         \* transactions: sequence of rows, index = id
    queue,       \* jobs added to the transaction queue
    chainCount,  \* wallet.getTransactionCount()
    req,         \* per request: position and locals of its handler
    store0,      \* the store before the first request (for accounting)
    approvedProfiles  \* approved_universal_profiles, read by part_001 only

vars == <<profiles, quotas, approved, txs, queue, chainCount, req, store0,
          approvedProfiles>>

\* ------------------------------------------------------- decimal strings
\* transactions.relayer_nonce is VARCHAR(100): a number is stored as its
\* decimal string and ORDER BY compares strings.
RECURSIVE ToStr(_)
ToStr(n) == IF n < 10 THEN <<n>> ELSE Append(ToStr(n \div 10), n % 10)

RECURSIVE Number(_)
Number(s) ==
    IF Len(s) = 0 THEN 0
    ELSE 10 * Number(SubSeq(s, 1, Len(s) - 1)) + s[Len(s)]

RECURSIVE StrLess(_, _)
StrLess(s, t) ==
    IF Len(t) = 0 THEN FALSE
    ELSE IF Len(s) = 0 THEN TRUE
    ELSE IF s[1] # t[1] THEN s[1] < t[1]
    ELSE StrLess(Tail(s), Tail(t))

\* ------------------------------------------------------------- helpers
Quota(addr, monthly, used) ==
    [universal_profile_address |-> addr, monthly_gas |-> monthly, gas_used |-> used]

Approved(approver, approvedAddr, monthly, used) ==
    [approver_address |-> approver, approved_address |-> approvedAddr,
     monthly_gas |-> monthly, gas_used |-> used]

Ids(rows) == 1..Len(rows)

\* A BigNumber is the set of the positions of its one-bits.
\* ethers.BigNumber.from(nonce): the 256-bit value of the string
BigNumberFrom(nonce) == {b + ChannelShift : b \in nonce.hi} \cup nonce.lo

\* BigNumber.shr
shr(bn, n) == {b - n : b \in {x \in bn : x >= n}}

\* BigNumber.toNumber truncating to the safe bits instead of throwing
toNumber_Truncating(bn) == [fault |-> FALSE, n |-> {b \in bn : b < SafeBits}]

\* BigNumber.toNumber: the number, or an overflow fault beyond the safe bits
toNumber(bn) ==
    IF \E b \in bn : b >= SafeBits THEN [fault |-> TRUE, n |-> {}]
    ELSE [fault |-> FALSE, n |-> bn]

\* extractChannelId: BigNumber.from(nonce).shr(128).toNumber()
extractChannelId(nonce) == toNumber(shr(BigNumberFrom(nonce), ChannelShift))

\* a number as the store takes it for an INT column
OutOfRange(n) == \E b \in n : b >= IntBits

RECURSIVE IntColumn(_)
IntColumn(n) ==
    IF n = {} THEN 0
    ELSE LET b == CHOOSE x \in n : TRUE IN 2 ^ b + IntColumn(n \ {b})

\* SELECT * FROM transactions WHERE relayer_address = $1 AND status = 'PENDING'
\* ORDER BY relayer_nonce DESC LIMIT 1, then Number(relayer_nonce) + 1, else
\* the wallet's transaction count.
PendingIds(rows) ==
    {i \in Ids(rows) : rows[i].relayer_address = WalletAddress /\ rows[i].status = "PENDING"}

LatestPending(rows) ==
    CHOOSE i \in PendingIds(rows) :
        \A j \in PendingIds(rows) : ~StrLess(rows[i].relayer_nonce, rows[j].relayer_nonce)

getWalletNonce(rows, count) ==
    IF PendingIds(rows) # {}
    THEN Number(rows[LatestPending(rows)].relayer_nonce) + 1
    ELSE count

\* ------------------------------------------------------- initial stores
NoQuotas == [a \in Profiles |-> NoRow]

Store(ps, qs, aqs) == [profiles |-> ps, quotas |-> qs, approved |-> aqs]

\* The stores the requests start from.  Rows other than lazily created ones
\* are written by parts of the relayer that are not modelled (the approval
\* handlers), so they are drawn from this list.
InitialStores == {
    \* nothing seen yet
    Store({}, NoQuotas, <<>>),
    \* a profile without a quota row
    Store({"upA"}, NoQuotas, <<>>),
    \* room for one more call of 5, no delegation
    Store({"upA"}, [NoQuotas EXCEPT !["upA"] = Quota("upA", 100, 95)], <<>>),
    \* own quota 100/90
    Store({"upA", "upB"},
          [NoQuotas EXCEPT !["upA"] = Quota("upA", 100, 90),
                           !["upB"] = Quota("upB", 200, 190)],
          <<Approved("upB", "upA", 50, 10)>>),
    \* own quota exhausted, one delegation 50/10 whose approver has 200/190
    Store({"upA", "upB"},
          [NoQuotas EXCEPT !["upA"] = Quota("upA", 100, 100),
                           !["upB"] = Quota("upB", 200, 190)],
          <<Approved("upB", "upA", 50, 10)>>),
    \* two delegations: the first approver is exhausted, the second is not
    Store({"upA", "upB", "upC"},
          [NoQuotas EXCEPT !["upA"] = Quota("upA", 100, 100),
                           !["upB"] = Quota("upB", 200, 200),
                           !["upC"] = Quota("upC", 200, 190)],
          <<Approved("upB", "upA", 50, 10), Approved("upC", "upA", 50, 10)>>),
    \* the first delegation has no room of its own, the second approver has no quota row
    Store({"upA", "upB", "upC"},
          [NoQuotas EXCEPT !["upA"] = Quota("upA", 100, 100),
                           !["upB"] = Quota("upB", 200, 190)],
          <<Approved("upB", "upA", 50, 45), Approved("upC", "upA", 50, 10)>>),
    \* a profile that approved itself
    Store({"upA"},
          [NoQuotas EXCEPT !["upA"] = Quota("upA", 100, 90)],
          <<Approved("upA", "upA", 8, 0)>>)
}

\* ------------------------------------------------------------ requests
IdleRequest ==
    [handler |-> "none", pc |-> "idle", address |-> "", nonce |-> EmptyString,
     signer |-> "", est |-> 0, quota |-> NoRow, aqs |-> <<>>, i |-> 0,
     channelId |-> {}, walletNonce |-> 0, txId |-> 0, err |-> "", authorized |-> FALSE,
     wrote |-> FALSE, timestamp |-> 0, parents |-> {}, totalQuota |-> 0,
     gasUsed |-> 0]

At(r, handler, pc) == req[r].handler = handler /\ req[r].pc = pc

\* a thrown error reaches the catch block of the handler; the locals of the
\* handler are gone, its inputs are kept for the record
Throw(r, e) ==
    [req EXCEPT ![r].pc = "failed", ![r].err = e, ![r].quota = NoRow,
                ![r].aqs = <<>>, ![r].i = 0, ![r].channelId = {},
                ![r].walletNonce = 0]

Init ==
    /\ \E s \in InitialStores :
        /\ profiles = s.profiles
        /\ quotas = s.quotas
        /\ approved = s.approved
        /\ store0 = s
    /\ txs = <<>>
    /\ queue = <<>>
    /\ chainCount \in OnChainCounts
    /\ req = [r \in Requests |-> IdleRequest]
    /\ approvedProfiles = <<>>

\* a row of approved_universal_profiles
ApprovedProfile(approver, approvedAddr) ==
    [approver_address |-> approver, approved_address |-> approvedAddr]

\* The table approved_universal_profiles is written by no handler and is not
\* tied to approved_quotas: it is empty, or holds the pairs of approved_quotas.
InitialApprovedProfiles(s) ==
    {<<>>,
     [i \in Ids(s.approved) |->
         ApprovedProfile(s.approved[i].approver_address, s.approved[i].approved_address)]}

\* the store as the handlers of part_001 find it
InitLegacy ==
    /\ \E s \in InitialStores :
        /\ profiles = s.profiles
        /\ quotas = s.quotas
        /\ approved = s.approved
        /\ store0 = s
        /\ approvedProfiles \in InitialApprovedProfiles(s)
    /\ txs = <<>>
    /\ queue = <<>>
    /\ chainCount \in OnChainCounts
    /\ req = [r \in Requests |-> IdleRequest]

\* ------------------------------------------------- execute (v1), 41..96
\* lines 43..47: the body parameters and validateExecuteParams
Execute_Validate(r) ==
    /\ req[r].pc = "idle"
    /\ \E a \in Callers \cup {""}, n \in Nonces \cup {EmptyString} :
        req' = IF a = "" \/ n = EmptyString
               THEN [req EXCEPT ![r].handler = "execute", ![r].pc = "failed",
                                ![r].err = "ArgumentError"]
               ELSE [req EXCEPT ![r].handler = "execute", ![r].pc = "signer",
                                ![r].address = a, ![r].nonce = n]
    /\ UNCHANGED <<profiles, quotas, approved, txs, queue, chainCount, store0, approvedProfiles>>

\* lines 50..51: setUpKeyManager, getSignerAddress (signature recovery)
Execute_GetSigner(r) ==
    /\ At(r, "execute", "signer")
    /\ \E s \in Signers \cup {""} :
        req' = IF s = "" THEN Throw(r, "SignatureInvalid")
               ELSE [req EXCEPT ![r].pc = "permission", ![r].signer = s]
    /\ UNCHANGED <<profiles, quotas, approved, txs, queue, chainCount, store0, approvedProfiles>>

\* line 52: checkSignerPermissions
Execute_CheckPermissions(r) ==
    /\ At(r, "execute", "permission")
    /\ \E hasPermission \in BOOLEAN :
        req' = IF hasPermission
               THEN [req EXCEPT ![r].pc = "estimate", ![r].authorized = TRUE]
               ELSE Throw(r, "Unauthorized")
    /\ UNCHANGED <<profiles, quotas, approved, txs, queue, chainCount, store0, approvedProfiles>>

\* lines 53..54: estimateGas; a falsy estimate throws "could not estimate gas"
Execute_EstimateGas(r) ==
    /\ At(r, "execute", "estimate")
    /\ \E e \in Estimates \cup {0} :
        req' = IF e = 0 THEN Throw(r, "GasEstimationFailed")
               ELSE [req EXCEPT ![r].pc = "erq_select", ![r].est = e]
    /\ UNCHANGED <<profiles, quotas, approved, txs, queue, chainCount, store0, approvedProfiles>>

\* ------------------------------------------- ensureRemainingQuota, 290..350
\* the headroom test with a strict comparison
Fits_Strict(q, estimatedGas) == q.gas_used + estimatedGas < q.monthly_gas

\* lines 321, 342, 346: the headroom test of a quota row
Fits(q, estimatedGas) == q.gas_used + estimatedGas <= q.monthly_gas

\* lines 331..336: the delegations that are skipped without a query
Skipped(aq, estimatedGas) == aq.gas_used + estimatedGas >= aq.monthly_gas

\* the index of the next delegation at or after i that is not skipped
RECURSIVE NextCandidate(_, _, _)
NextCandidate(aqs, i, estimatedGas) ==
    IF i > Len(aqs) THEN i
    ELSE IF Skipped(aqs[i], estimatedGas) THEN NextCandidate(aqs, i + 1, estimatedGas)
    ELSE i

\* lines 345..348 once the loop has run out of delegations: quota is the last
\* row read, which did not fit
AfterLoop(r, q) ==
    IF q = NoRow \/ ~Fits(q, req[r].est)
    THEN Throw(r, "NoGasError")
    ELSE [req EXCEPT ![r].pc = "nonce", ![r].quota = q]

\* lines 296..299, 301, 321
ERQ_SelectQuota(r) ==
    /\ At(r, "execute", "erq_select")
    /\ LET q == quotas[req[r].address] IN
        req' = IF q = NoRow THEN [req EXCEPT ![r].pc = "erq_selup"]
               ELSE IF Fits(q, req[r].est)
               THEN [req EXCEPT ![r].pc = "nonce", ![r].quota = q]
               ELSE [req EXCEPT ![r].pc = "erq_aq", ![r].quota = q]
    /\ UNCHANGED <<profiles, quotas, approved, txs, queue, chainCount, store0, approvedProfiles>>

\* lines 303..307
ERQ_SelectProfile(r) ==
    /\ At(r, "execute", "erq_selup")
    /\ req' = [req EXCEPT ![r].pc =
                 IF req[r].address \in profiles THEN "erq_insq" ELSE "erq_insup"]
    /\ UNCHANGED <<profiles, quotas, approved, txs, queue, chainCount, store0, approvedProfiles>>

\* lines 308..311: INSERT INTO universal_profiles (address is its key)
ERQ_InsertProfile(r) ==
    /\ At(r, "execute", "erq_insup")
    /\ IF req[r].address \in profiles
       THEN /\ req' = Throw(r, "InsertConflict")
            /\ UNCHANGED profiles
       ELSE /\ profiles' = profiles \cup {req[r].address}
            /\ req' = [req EXCEPT ![r].pc = "erq_insq", ![r].wrote = TRUE]
    /\ UNCHANGED <<quotas, approved, txs, queue, chainCount, store0, approvedProfiles>>

\* lines 314..318: INSERT INTO quotas, returned without a headroom test
ERQ_InsertQuota(r) ==
    /\ At(r, "execute", "erq_insq")
    /\ LET a == req[r].address
           q == Quota(a, DefaultMonthlyGas, 0) IN
        IF quotas[a] # NoRow
        THEN /\ req' = Throw(r, "InsertConflict")
             /\ UNCHANGED quotas
        ELSE /\ quotas' = [quotas EXCEPT ![a] = q]
             /\ req' = [req EXCEPT ![r].pc = "nonce", ![r].quota = q,
                                   ![r].wrote = TRUE]
    /\ UNCHANGED <<profiles, approved, txs, queue, chainCount, store0, approvedProfiles>>

\* SELECT * FROM approved_quotas WHERE approved_address = $1
ApprovedFor(rows, a) == SelectSeq(rows, LAMBDA row : row.approved_address = a)

\* lines 324..336: the delegations of the caller, up to the first one that is
\* not skipped
ERQ_SelectApproved(r) ==
    /\ At(r, "execute", "erq_aq")
    /\ LET aqs == ApprovedFor(approved, req[r].address)
           j == NextCandidate(aqs, 1, req[r].est) IN
        req' = IF Len(aqs) = 0 THEN Throw(r, "NoGasError")
               ELSE IF j > Len(aqs) THEN AfterLoop(r, req[r].quota)
               ELSE [req EXCEPT ![r].pc = "erq_loop", ![r].aqs = aqs, ![r].i = j]
    /\ UNCHANGED <<profiles, quotas, approved, txs, queue, chainCount, store0, approvedProfiles>>

\* lines 337..348: the approver's quota of delegation i, then on to the next
\* delegation that is not skipped
ERQ_SelectApprover(r) ==
    /\ At(r, "execute", "erq_loop")
    /\ LET aqs == req[r].aqs
           q == quotas[aqs[req[r].i].approver_address]
           j == NextCandidate(aqs, req[r].i + 1, req[r].est) IN
        req' = IF q = NoRow THEN Throw(r, "TypeError")
               ELSE IF Fits(q, req[r].est)
               THEN [req EXCEPT ![r].pc = "nonce", ![r].quota = q]
               ELSE IF j > Len(aqs) THEN AfterLoop(r, q)
               ELSE [req EXCEPT ![r].quota = q, ![r].i = j]
    /\ UNCHANGED <<profiles, quotas, approved, txs, queue, chainCount, store0, approvedProfiles>>

\* ------------------------------------------------- execute (v1), continued
\* lines 56..57: extractChannelId and getWalletNonce
Execute_GetWalletNonce(r) ==
    /\ At(r, "execute", "nonce")
    /\ LET channelId == extractChannelId(req[r].nonce) IN
        req' = IF channelId.fault THEN Throw(r, "NumericFault")
               ELSE [req EXCEPT ![r].pc = "hash", ![r].channelId = channelId.n,
                                ![r].walletNonce = getWalletNonce(txs, chainCount)]
    /\ UNCHANGED <<profiles, quotas, approved, txs, queue, chainCount, store0, approvedProfiles>>

\* lines 58..65: calcHash signs the call with the wallet nonce
Execute_CalcHash(r) ==
    /\ At(r, "execute", "hash")
    /\ \E ok \in BOOLEAN :
        req' = IF ok THEN [req EXCEPT ![r].pc = "create"] ELSE Throw(r, "HashError")
    /\ UNCHANGED <<profiles, quotas, approved, txs, queue, chainCount, store0, approvedProfiles>>

\* ----------------------------------------------- createTransaction, 98..142
\* UPDATE quotas SET gas_used = gas_used + $1 WHERE id = $2
DebitQuota(qs, quota, estimatedGas) ==
    [a \in DOMAIN qs |->
        IF qs[a] # NoRow /\ a = quota.universal_profile_address
        THEN [qs[a] EXCEPT !.gas_used = @ + estimatedGas]
        ELSE qs[a]]

\* the update of approved_quotas without its condition on the approver
DebitedApproved_AnyApprover(rows, address, quota) ==
    {i \in Ids(rows) : rows[i].approved_address = address}

\* the rows of UPDATE approved_quotas ... WHERE approved_address = $2 and
\* approver_address = $3
DebitedApproved(rows, address, quota) ==
    {i \in Ids(rows) : /\ rows[i].approved_address = address
                       /\ rows[i].approver_address = quota.universal_profile_address}

DebitApproved(rows, address, quota, estimatedGas) ==
    [i \in Ids(rows) |->
        IF i \in DebitedApproved(rows, address, quota)
        THEN [rows[i] EXCEPT !.gas_used = @ + estimatedGas]
        ELSE rows[i]]

\* UNIQUE (nonce, channel_id, signer_address) of 0005_transactions.sql
UniqueViolation(rows, row) ==
    \E i \in Ids(rows) : /\ rows[i].nonce = row.nonce
                         /\ rows[i].channel_id = row.channel_id
                         /\ rows[i].signer_address = row.signer_address

\* the row inserted without the id of the delegation
NewTransaction_NoPayer(r, approvedQuotaId) ==
    [universal_profile_address |-> req[r].address,
     nonce |-> req[r].nonce,
     channel_id |-> IntColumn(req[r].channelId),
     status |-> "PENDING",
     signer_address |-> req[r].signer,
     relayer_nonce |-> ToStr(req[r].walletNonce),
     relayer_address |-> WalletAddress,
     estimated_gas |-> req[r].est,
     gas_used |-> 0,
     approved_quota_id |-> 0]

\* the row of INSERT INTO transactions, lines 121..138
NewTransaction(r, approvedQuotaId) ==
    [universal_profile_address |-> req[r].address,
     nonce |-> req[r].nonce,
     channel_id |-> IntColumn(req[r].channelId),
     status |-> "PENDING",
     signer_address |-> req[r].signer,
     relayer_nonce |-> ToStr(req[r].walletNonce),
     relayer_address |-> WalletAddress,
     estimated_gas |-> req[r].est,
     gas_used |-> 0,
     approved_quota_id |-> approvedQuotaId]

\* createTransaction with the quota update issued outside the transaction: it
\* stays when the insert fails
CreateTransaction_NoRollback(r) ==
    /\ At(r, "execute", "create")
    /\ LET hit == DebitedApproved(approved, req[r].address, req[r].quota)
           row == NewTransaction(r, IF hit = {} THEN 0 ELSE CHOOSE i \in hit : TRUE) IN
        /\ quotas' = DebitQuota(quotas, req[r].quota, req[r].est)
        /\ IF Cardinality(hit) > 1 \/ OutOfRange(req[r].channelId)
           THEN /\ req' = Throw(r, "QueryResultError")
                /\ UNCHANGED <<approved, txs>>
           ELSE IF UniqueViolation(txs, row)
           THEN /\ req' = Throw(r, "UniqueViolation")
                /\ UNCHANGED <<approved, txs>>
           ELSE /\ approved' = DebitApproved(approved, req[r].address, req[r].quota, req[r].est)
                /\ txs' = Append(txs, row)
                /\ req' = [req EXCEPT ![r].pc = "enqueue", ![r].txId = Len(txs) + 1,
                                      ![r].wrote = TRUE]
    /\ UNCHANGED <<profiles, queue, chainCount, store0, approvedProfiles>>

\* db.tx: both updates and the insert commit together, or none does
CreateTransaction(r) ==
    /\ At(r, "execute", "create")
    /\ LET hit == DebitedApproved(approved, req[r].address, req[r].quota)
           row == NewTransaction(r, IF hit = {} THEN 0 ELSE CHOOSE i \in hit : TRUE) IN
        IF Cardinality(hit) > 1
        THEN \* t.oneOrNone rejects a result of several rows
             /\ req' = Throw(r, "QueryResultError")
             /\ UNCHANGED <<quotas, approved, txs>>
        ELSE IF OutOfRange(req[r].channelId)
        THEN \* channel_id is INT: the insert fails with "integer out of range"
             /\ req' = Throw(r, "OutOfRange")
             /\ UNCHANGED <<quotas, approved, txs>>
        ELSE IF UniqueViolation(txs, row)
        THEN /\ req' = Throw(r, "UniqueViolation")
             /\ UNCHANGED <<quotas, approved, txs>>
        ELSE /\ quotas' = DebitQuota(quotas, req[r].quota, req[r].est)
             /\ approved' = DebitApproved(approved, req[r].address, req[r].quota, req[r].est)
             /\ txs' = Append(txs, row)
             /\ req' = [req EXCEPT ![r].pc = "enqueue", ![r].txId = Len(txs) + 1,
                                   ![r].wrote = TRUE]
    /\ UNCHANGED <<profiles, queue, chainCount, store0, approvedProfiles>>

\* lines 81..85: txQueue.add and the response
Execute_Enqueue(r) ==
    /\ At(r, "execute", "enqueue")
    /\ queue' = Append(queue, req[r].txId)
    /\ req' = [req EXCEPT ![r].pc = "done", ![r].quota = NoRow, ![r].aqs = <<>>,
                          ![r].i = 0, ![r].channelId = {}, ![r].walletNonce = 0]
    /\ UNCHANGED <<profiles, quotas, approved, txs, chainCount, store0, approvedProfiles>>

\* ------------------------------------------------------ quota (v1), 144..259
\* lines 212..236: the totals reported for a quota row, the delegations
\* granted to the profile and the quota rows of their approvers
\* the totals with every delegation capped by the approver's headroom alone
RECURSIVE Totals_CapByHeadroom(_, _, _, _)
Totals_CapByHeadroom(acc, aqs, i, parentQuotas) ==
    IF i > Len(aqs) THEN acc
    ELSE LET aQuota == aqs[i]
             found == {p \in parentQuotas :
                          p.universal_profile_address = aQuota.approver_address}
         IN IF found = {} THEN Totals_CapByHeadroom(acc, aqs, i + 1, parentQuotas)
            ELSE LET parentQuota == CHOOSE p \in found : TRUE
                     parentGasRemaining == parentQuota.monthly_gas - parentQuota.gas_used
                 IN IF parentQuota.gas_used >= parentQuota.monthly_gas
                    THEN Totals_CapByHeadroom(acc, aqs, i + 1, parentQuotas)
                    ELSE Totals_CapByHeadroom(
                        [totalQuota |-> acc.totalQuota +
                            (IF parentGasRemaining >= aQuota.monthly_gas
                             THEN aQuota.monthly_gas ELSE parentGasRemaining),
                         gasUsed |-> acc.gasUsed + aQuota.gas_used],
                        aqs, i + 1, parentQuotas)

\* the totals with the used gas of a delegation counted before the approver
\* is looked at
RECURSIVE Totals_UsedFirst(_, _, _, _)
Totals_UsedFirst(acc, aqs, i, parentQuotas) ==
    IF i > Len(aqs) THEN acc
    ELSE LET aQuota == aqs[i]
             counted == [acc EXCEPT !.gasUsed = @ + aQuota.gas_used]
             found == {p \in parentQuotas :
                          p.universal_profile_address = aQuota.approver_address}
         IN IF found = {} THEN Totals_UsedFirst(counted, aqs, i + 1, parentQuotas)
            ELSE LET parentQuota == CHOOSE p \in found : TRUE
                     parentGasRemaining == parentQuota.monthly_gas - parentQuota.gas_used
                     approvedGasRemaining == aQuota.monthly_gas - aQuota.gas_used
                 IN IF parentQuota.gas_used >= parentQuota.monthly_gas
                    THEN Totals_UsedFirst(counted, aqs, i + 1, parentQuotas)
                    ELSE Totals_UsedFirst(
                        [counted EXCEPT !.totalQuota = @ +
                            (IF parentGasRemaining >= approvedGasRemaining
                             THEN aQuota.monthly_gas ELSE parentGasRemaining)],
                        aqs, i + 1, parentQuotas)

RECURSIVE Totals(_, _, _, _)
Totals(acc, aqs, i, parentQuotas) ==
    IF i > Len(aqs) THEN acc
    ELSE LET aQuota == aqs[i]
             found == {p \in parentQuotas :
                          p.universal_profile_address = aQuota.approver_address}
         IN IF found = {} THEN Totals(acc, aqs, i + 1, parentQuotas)
            ELSE LET parentQuota == CHOOSE p \in found : TRUE
                     parentGasRemaining == parentQuota.monthly_gas - parentQuota.gas_used
                     approvedGasRemaining == aQuota.monthly_gas - aQuota.gas_used
                 IN IF parentQuota.gas_used >= parentQuota.monthly_gas
                    THEN Totals(acc, aqs, i + 1, parentQuotas)
                    ELSE Totals(
                        [totalQuota |-> acc.totalQuota +
                            (IF parentGasRemaining >= approvedGasRemaining
                             THEN aQuota.monthly_gas ELSE parentGasRemaining),
                         gasUsed |-> acc.gasUsed + aQuota.gas_used],
                        aqs, i + 1, parentQuotas)

QuotaStatus(transactionQuota, approvedQuotas, parentQuotas) ==
    Totals([totalQuota |-> transactionQuota.monthly_gas,
            gasUsed |-> transactionQuota.gas_used],
           approvedQuotas, 1, parentQuotas)

\* lines 245..250: the response
Respond(r, transactionQuota, approvedQuotas, parentQuotas) ==
    LET st == QuotaStatus(transactionQuota, approvedQuotas, parentQuotas) IN
    [req EXCEPT ![r].pc = "done", ![r].quota = transactionQuota,
                ![r].aqs = approvedQuotas, ![r].parents = parentQuotas,
                ![r].totalQuota = st.totalQuota, ![r].gasUsed = st.gasUsed]

\* the freshness test without its lower bound
Stale_PastOnly(now, timestamp) ==
    LET timeDiff == now - timestamp IN timeDiff > FreshnessWindow

\* lines 150..153: the freshness test
Stale(now, timestamp) ==
    LET timeDiff == now - timestamp IN
    timeDiff > FreshnessWindow \/ timeDiff < -FreshnessWindow

\* lines 147..153: validateQuotaParams and the freshness test
Quota_Validate(r) ==
    /\ req[r].pc = "idle"
    /\ \E a \in Callers \cup {""}, ts \in Timestamps :
        req' = IF a = "" \/ ts = 0
               THEN [req EXCEPT ![r].handler = "quota", ![r].pc = "failed",
                                ![r].err = "ArgumentError"]
               ELSE IF Stale(Now, ts)
               THEN [req EXCEPT ![r].handler = "quota", ![r].pc = "failed",
                                ![r].timestamp = ts, ![r].err = "StaleTimestamp"]
               ELSE [req EXCEPT ![r].handler = "quota", ![r].pc = "signer",
                                ![r].address = a, ![r].timestamp = ts]
    /\ UNCHANGED <<profiles, quotas, approved, txs, queue, chainCount, store0, approvedProfiles>>

\* lines 155..163: verifyMessage
Quota_GetSigner(r) ==
    /\ At(r, "quota", "signer")
    /\ \E s \in Signers \cup {""} :
        req' = IF s = "" THEN Throw(r, "SignatureInvalid")
               ELSE [req EXCEPT ![r].pc = "permission", ![r].signer = s]
    /\ UNCHANGED <<profiles, quotas, approved, txs, queue, chainCount, store0, approvedProfiles>>

\* line 164: checkSignerPermissions
Quota_CheckPermissions(r) ==
    /\ At(r, "quota", "permission")
    /\ \E hasPermission \in BOOLEAN :
        req' = IF hasPermission
               THEN [req EXCEPT ![r].pc = "q_select", ![r].authorized = TRUE]
               ELSE Throw(r, "Unauthorized")
    /\ UNCHANGED <<profiles, quotas, approved, txs, queue, chainCount, store0, approvedProfiles>>

\* lines 169..174
Quota_SelectQuota(r) ==
    /\ At(r, "quota", "q_select")
    /\ LET q == quotas[req[r].address] IN
        req' = IF q = NoRow THEN [req EXCEPT ![r].pc = "q_selup"]
               ELSE [req EXCEPT ![r].pc = "q_aq", ![r].quota = q]
    /\ UNCHANGED <<profiles, quotas, approved, txs, queue, chainCount, store0, approvedProfiles>>

\* lines 176..181
Quota_SelectProfile(r) ==
    /\ At(r, "quota", "q_selup")
    /\ req' = [req EXCEPT ![r].pc =
                 IF req[r].address \in profiles THEN "q_insq" ELSE "q_insup"]
    /\ UNCHANGED <<profiles, quotas, approved, txs, queue, chainCount, store0, approvedProfiles>>

\* lines 182..185
Quota_InsertProfile(r) ==
    /\ At(r, "quota", "q_insup")
    /\ IF req[r].address \in profiles
       THEN /\ req' = Throw(r, "InsertConflict")
            /\ UNCHANGED profiles
       ELSE /\ profiles' = profiles \cup {req[r].address}
            /\ req' = [req EXCEPT ![r].pc = "q_insq", ![r].wrote = TRUE]
    /\ UNCHANGED <<quotas, approved, txs, queue, chainCount, store0, approvedProfiles>>

\* the insert as an upsert that resets the row it finds
Quota_InsertQuota_Reset(r) ==
    /\ At(r, "quota", "q_insq")
    /\ LET a == req[r].address
           q == Quota(a, DefaultMonthlyGas, 0) IN
        /\ quotas' = [quotas EXCEPT ![a] = q]
        /\ req' = [req EXCEPT ![r].pc = "q_aq", ![r].quota = q, ![r].wrote = TRUE]
    /\ UNCHANGED <<profiles, approved, txs, queue, chainCount, store0, approvedProfiles>>

\* lines 188..191
Quota_InsertQuota(r) ==
    /\ At(r, "quota", "q_insq")
    /\ LET a == req[r].address
           q == Quota(a, DefaultMonthlyGas, 0) IN
        IF quotas[a] # NoRow
        THEN /\ req' = Throw(r, "InsertConflict")
             /\ UNCHANGED quotas
        ELSE /\ quotas' = [quotas EXCEPT ![a] = q]
             /\ req' = [req EXCEPT ![r].pc = "q_aq", ![r].quota = q,
                                   ![r].wrote = TRUE]
    /\ UNCHANGED <<profiles, approved, txs, queue, chainCount, store0, approvedProfiles>>

\* lines 194..199, and 212..250 when there is no delegation
Quota_SelectApproved(r) ==
    /\ At(r, "quota", "q_aq")
    /\ LET aqs == ApprovedFor(approved, req[r].address) IN
        req' = IF Len(aqs) = 0 THEN Respond(r, req[r].quota, aqs, {})
               ELSE [req EXCEPT ![r].pc = "q_parents", ![r].aqs = aqs]
    /\ UNCHANGED <<profiles, quotas, approved, txs, queue, chainCount, store0, approvedProfiles>>

\* SELECT * FROM quotas WHERE universal_profile_address IN ($1:csv)
ParentQuotas(qs, aqs) ==
    {qs[a] : a \in {aqs[i].approver_address : i \in Ids(aqs)}} \ {NoRow}

\* lines 200..206, then 212..250
Quota_SelectParents(r) ==
    /\ At(r, "quota", "q_parents")
    /\ req' = Respond(r, req[r].quota, req[r].aqs, ParentQuotas(quotas, req[r].aqs))
    /\ UNCHANGED <<profiles, quotas, approved, txs, queue, chainCount, store0, approvedProfiles>>

GetQuota(r) ==
    \/ Quota_Validate(r)
    \/ Quota_GetSigner(r)
    \/ Quota_CheckPermissions(r)
    \/ Quota_SelectQuota(r)
    \/ Quota_SelectProfile(r)
    \/ Quota_InsertProfile(r)
    \/ Quota_InsertQuota(r)
    \/ Quota_SelectApproved(r)
    \/ Quota_SelectParents(r)

\* ------------------------------------- execute of part_001 (earlier), 18..122
\* lines 20..24
Legacy_Validate(r) ==
    /\ req[r].pc = "idle"
    /\ \E a \in Callers \cup {""}, n \in Nonces \cup {EmptyString} :
        req' = IF a = "" \/ n = EmptyString
               THEN [req EXCEPT ![r].handler = "legacy", ![r].pc = "failed",
                                ![r].err = "ArgumentError"]
               ELSE [req EXCEPT ![r].handler = "legacy", ![r].pc = "owner",
                                ![r].address = a, ![r].nonce = n]
    /\ UNCHANGED <<profiles, quotas, approved, txs, queue, chainCount, store0, approvedProfiles>>

\* line 35: universalProfileContract.owner()
Legacy_Owner(r) ==
    /\ At(r, "legacy", "owner")
    /\ \E ok \in BOOLEAN :
        req' = IF ok THEN [req EXCEPT ![r].pc = "estimate"]
               ELSE Throw(r, "ContractCallFailed")
    /\ UNCHANGED <<profiles, quotas, approved, txs, queue, chainCount, store0, approvedProfiles>>

\* lines 42..47: estimateGas.executeRelayCall rejects, or gives an estimate
\* that is used as it is, 0 included
Legacy_EstimateGas(r) ==
    /\ At(r, "legacy", "estimate")
    /\ \E rejected \in BOOLEAN, e \in Estimates \cup {0} :
        req' = IF rejected THEN Throw(r, "GasEstimationFailed")
               ELSE [req EXCEPT ![r].pc = "erq_select", ![r].est = e]
    /\ UNCHANGED <<profiles, quotas, approved, txs, queue, chainCount, store0, approvedProfiles>>

\* lines 198..203, 212 of ensureRemainingQuota
Legacy_SelectQuota(r) ==
    /\ At(r, "legacy", "erq_select")
    /\ LET q == quotas[req[r].address] IN
        req' = IF q = NoRow THEN [req EXCEPT ![r].pc = "erq_insq"]
               ELSE IF Fits(q, req[r].est)
               THEN [req EXCEPT ![r].pc = "pending", ![r].quota = q]
               ELSE [req EXCEPT ![r].pc = "erq_aq", ![r].quota = q]
    /\ UNCHANGED <<profiles, quotas, approved, txs, queue, chainCount, store0, approvedProfiles>>

\* lines 205..209: INSERT INTO quotas, no profile row is written
Legacy_InsertQuota(r) ==
    /\ At(r, "legacy", "erq_insq")
    /\ LET a == req[r].address
           q == Quota(a, DefaultMonthlyGas, 0) IN
        IF quotas[a] # NoRow
        THEN /\ req' = Throw(r, "InsertConflict")
             /\ UNCHANGED quotas
        ELSE IF a \notin profiles
        THEN \* FOREIGN KEY(universal_profile_address) of the quotas table
             /\ req' = Throw(r, "ForeignKeyViolation")
             /\ UNCHANGED quotas
        ELSE /\ quotas' = [quotas EXCEPT ![a] = q]
             /\ req' = [req EXCEPT ![r].pc = "pending", ![r].quota = q,
                                   ![r].wrote = TRUE]
    /\ UNCHANGED <<profiles, approved, txs, queue, chainCount, store0, approvedProfiles>>

\* lines 215..219: SELECT * FROM approved_universal_profiles
Legacy_SelectApproved(r) ==
    /\ At(r, "legacy", "erq_aq")
    /\ LET aqs == ApprovedFor(approvedProfiles, req[r].address) IN
        req' = IF Len(aqs) = 0 THEN Throw(r, "NoGasError")
               ELSE [req EXCEPT ![r].pc = "erq_loop", ![r].aqs = aqs, ![r].i = 1]
    /\ UNCHANGED <<profiles, quotas, approved, txs, queue, chainCount, store0, approvedProfiles>>

\* lines 222..234: every delegation's approver is read, none is skipped
Legacy_SelectApprover(r) ==
    /\ At(r, "legacy", "erq_loop")
    /\ LET aqs == req[r].aqs
           q == quotas[aqs[req[r].i].approver_address] IN
        req' = IF q = NoRow THEN Throw(r, "TypeError")
               ELSE IF Fits(q, req[r].est)
               THEN [req EXCEPT ![r].pc = "pending", ![r].quota = q]
               ELSE IF req[r].i = Len(aqs) THEN Throw(r, "NoGasError")
               ELSE [req EXCEPT ![r].quota = q, ![r].i = @ + 1]
    /\ UNCHANGED <<profiles, quotas, approved, txs, queue, chainCount, store0, approvedProfiles>>

\* lines 49..69: extractChannelId, verifyMessage, the latest pending row
Legacy_SelectPending(r) ==
    /\ At(r, "legacy", "pending")
    /\ \E s \in Signers \cup {""} :
        LET channelId == extractChannelId(req[r].nonce) IN
        req' = IF channelId.fault THEN Throw(r, "NumericFault")
               ELSE IF s = "" THEN Throw(r, "SignatureInvalid")
               ELSE IF PendingIds(txs) # {}
               THEN [req EXCEPT ![r].pc = "tx", ![r].signer = s,
                                ![r].channelId = channelId.n,
                                ![r].walletNonce = getWalletNonce(txs, chainCount)]
               ELSE [req EXCEPT ![r].pc = "count", ![r].signer = s,
                                ![r].channelId = channelId.n]
    /\ UNCHANGED <<profiles, quotas, approved, txs, queue, chainCount, store0, approvedProfiles>>

\* line 71: wallet.getTransactionCount()
Legacy_GetTransactionCount(r) ==
    /\ At(r, "legacy", "count")
    /\ req' = [req EXCEPT ![r].pc = "tx", ![r].walletNonce = chainCount]
    /\ UNCHANGED <<profiles, quotas, approved, txs, queue, chainCount, store0, approvedProfiles>>

\* the row of INSERT INTO transactions, lines 76..89: estimated_gas, gas_used
\* and approved_quota_id are not among its columns
LegacyTransaction(r) ==
    [universal_profile_address |-> req[r].address,
     nonce |-> req[r].nonce,
     channel_id |-> IntColumn(req[r].channelId),
     status |-> "PENDING",
     signer_address |-> req[r].signer,
     relayer_nonce |-> ToStr(req[r].walletNonce),
     relayer_address |-> WalletAddress,
     estimated_gas |-> Null,
     gas_used |-> Null,
     approved_quota_id |-> 0]

\* lines 75..96: db.tx with the insert and the quota update
Legacy_Transaction(r) ==
    /\ At(r, "legacy", "tx")
    /\ IF OutOfRange(req[r].channelId)
       THEN /\ req' = Throw(r, "OutOfRange")
            /\ UNCHANGED <<quotas, txs>>
       ELSE IF UniqueViolation(txs, LegacyTransaction(r))
       THEN /\ req' = Throw(r, "UniqueViolation")
            /\ UNCHANGED <<quotas, txs>>
       ELSE IF req[r].address \notin profiles
       THEN \* FOREIGN KEY(universal_profile_address) of 0005_transactions.sql
            /\ req' = Throw(r, "ForeignKeyViolation")
            /\ UNCHANGED <<quotas, txs>>
       ELSE /\ txs' = Append(txs, LegacyTransaction(r))
            /\ quotas' = DebitQuota(quotas, req[r].quota, req[r].est)
            /\ req' = [req EXCEPT ![r].pc = "hash", ![r].txId = Len(txs) + 1,
                                  ![r].wrote = TRUE]
    /\ UNCHANGED <<profiles, approved, queue, chainCount, store0, approvedProfiles>>

\* lines 99..103: keyManager.populateTransaction.executeRelayCall
Legacy_PopulateRelayCall(r) ==
    /\ At(r, "legacy", "hash")
    /\ \E ok \in BOOLEAN :
        req' = IF ok THEN [req EXCEPT ![r].pc = "populate"] ELSE Throw(r, "HashError")
    /\ UNCHANGED <<profiles, quotas, approved, txs, queue, chainCount, store0, approvedProfiles>>

\* line 105: wallet.populateTransaction
Legacy_PopulateTransaction(r) ==
    /\ At(r, "legacy", "populate")
    /\ \E ok \in BOOLEAN :
        req' = IF ok THEN [req EXCEPT ![r].pc = "sign"] ELSE Throw(r, "HashError")
    /\ UNCHANGED <<profiles, quotas, approved, txs, queue, chainCount, store0, approvedProfiles>>

\* lines 106..110: keyManager.signer.signTransaction, parseTransaction
Legacy_SignTransaction(r) ==
    /\ At(r, "legacy", "sign")
    /\ \E ok \in BOOLEAN :
        req' = IF ok THEN [req EXCEPT ![r].pc = "enqueue"] ELSE Throw(r, "HashError")
    /\ UNCHANGED <<profiles, quotas, approved, txs, queue, chainCount, store0, approvedProfiles>>

\* lines 99..110: the hash, computed after the row was committed
Legacy_Hash(r) ==
    \/ Legacy_PopulateRelayCall(r)
    \/ Legacy_PopulateTransaction(r)
    \/ Legacy_SignTransaction(r)

\* lines 112..117: transactionQueue.add and the response
Legacy_Enqueue(r) ==
    /\ At(r, "legacy", "enqueue")
    /\ queue' = Append(queue, req[r].txId)
    /\ req' = [req EXCEPT ![r].pc = "done", ![r].quota = NoRow, ![r].aqs = <<>>,
                          ![r].i = 0, ![r].channelId = {}, ![r].walletNonce = 0]
    /\ UNCHANGED <<profiles, quotas, approved, txs, chainCount, store0, approvedProfiles>>

\* ------------------------------------------ quota of part_001, 124..178
\* lines 126..143: the freshness test, the message and verifyMessage; a
\* missing timestamp passes the test (NaN) and fails in solidityKeccak256
Legacy_Quota_Verify(r) ==
    /\ req[r].pc = "idle"
    /\ \E a \in Callers \cup {""}, ts \in Timestamps, s \in Signers \cup {""} :
        req' = IF ts # 0 /\ Stale(Now, ts)
               THEN [req EXCEPT ![r].handler = "legacyquota", ![r].pc = "failed",
                                ![r].err = "StaleTimestamp"]
               ELSE IF a = "" \/ ts = 0
               THEN [req EXCEPT ![r].handler = "legacyquota", ![r].pc = "failed",
                                ![r].err = "ArgumentError"]
               ELSE IF s = ""
               THEN [req EXCEPT ![r].handler = "legacyquota", ![r].pc = "failed",
                                ![r].err = "SignatureInvalid"]
               ELSE [req EXCEPT ![r].handler = "legacyquota", ![r].pc = "q_select",
                                ![r].address = a, ![r].signer = s]
    /\ UNCHANGED <<profiles, quotas, approved, txs, queue, chainCount, store0, approvedProfiles>>

\* lines 168..173: the response
LegacyRespond(r, transactionQuota) ==
    [req EXCEPT ![r].pc = "done", ![r].quota = transactionQuota,
                ![r].totalQuota = transactionQuota.monthly_gas,
                ![r].gasUsed = transactionQuota.gas_used]

\* lines 147..152, and 161..173 when the row is there
Legacy_Quota_SelectQuota(r) ==
    /\ At(r, "legacyquota", "q_select")
    /\ LET q == quotas[req[r].address] IN
        req' = IF q = NoRow THEN [req EXCEPT ![r].pc = "q_insq"]
               ELSE LegacyRespond(r, q)
    /\ UNCHANGED <<profiles, quotas, approved, txs, queue, chainCount, store0, approvedProfiles>>

\* lines 153..156, then 161..173
Legacy_Quota_InsertQuota(r) ==
    /\ At(r, "legacyquota", "q_insq")
    /\ LET a == req[r].address
           q == Quota(a, DefaultMonthlyGas, 0) IN
        IF quotas[a] # NoRow
        THEN /\ req' = Throw(r, "InsertConflict")
             /\ UNCHANGED quotas
        ELSE IF a \notin profiles
        THEN \* FOREIGN KEY(universal_profile_address) of the quotas table
             /\ req' = Throw(r, "ForeignKeyViolation")
             /\ UNCHANGED quotas
        ELSE /\ quotas' = [quotas EXCEPT ![a] = q]
             /\ req' = [LegacyRespond(r, q) EXCEPT ![r].wrote = TRUE]
    /\ UNCHANGED <<profiles, approved, txs, queue, chainCount, store0, approvedProfiles>>

LegacyQuota(r) ==
    \/ Legacy_Quota_Verify(r)
    \/ Legacy_Quota_SelectQuota(r)
    \/ Legacy_Quota_InsertQuota(r)

LegacyExecute(r) ==
    \/ Legacy_Validate(r)
    \/ Legacy_Owner(r)
    \/ Legacy_EstimateGas(r)
    \/ Legacy_SelectQuota(r)
    \/ Legacy_InsertQuota(r)
    \/ Legacy_SelectApproved(r)
    \/ Legacy_SelectApprover(r)
    \/ Legacy_SelectPending(r)
    \/ Legacy_GetTransactionCount(r)
    \/ Legacy_Transaction(r)
    \/ Legacy_Hash(r)
    \/ Legacy_Enqueue(r)

\* ---------------------------------------------------------- specification
Execute(r) ==
    \/ Execute_Validate(r)
    \/ Execute_GetSigner(r)
    \/ Execute_CheckPermissions(r)
    \/ Execute_EstimateGas(r)
    \/ ERQ_SelectQuota(r)
    \/ ERQ_SelectProfile(r)
    \/ ERQ_InsertProfile(r)
    \/ ERQ_InsertQuota(r)
    \/ ERQ_SelectApproved(r)
    \/ ERQ_SelectApprover(r)
    \/ Execute_GetWalletNonce(r)
    \/ Execute_CalcHash(r)
    \/ CreateTransaction(r)
    \/ Execute_Enqueue(r)

Next == \E r \in Requests : Execute(r) \/ GetQuota(r)

Spec == Init /\ [][Next]_vars

\* the handlers of part_001 on the same store
NextLegacy == \E r \in Requests : LegacyExecute(r) \/ LegacyQuota(r)

SpecLegacy == InitLegacy /\ [][NextLegacy]_vars

\* ------------------------------------------------ sequential executions
\* Requests served one after the other by the execute of part_001, on a
\* ledger that already holds the PENDING rows of earlier relays: the wallet's
\* transaction count and the nonces that follow it.
PendingRow(a, k, n) ==
    [universal_profile_address |-> a,
     nonce |-> NonceString("dec", {2}, {k}),
     channel_id |-> IntColumn({2}),
     status |-> "PENDING",
     signer_address |-> "s1",
     relayer_nonce |-> ToStr(n),
     relayer_address |-> WalletAddress,
     estimated_gas |-> Null,
     gas_used |-> Null,
     approved_quota_id |-> 0]

\* the ledger after k relays served one after the other: each row has the
\* wallet nonce the code computes on the rows before it
RECURSIVE PendingHistory(_, _, _)
PendingHistory(a, count, k) ==
    IF k = 0 THEN <<>>
    ELSE LET rows == PendingHistory(a, count, k - 1)
         IN Append(rows, PendingRow(a, k, getWalletNonce(rows, count)))

InitSequential ==
    /\ \E s \in InitialStores :
        /\ profiles = s.profiles
        /\ quotas = s.quotas
        /\ approved = s.approved
        /\ store0 = s
        /\ approvedProfiles \in InitialApprovedProfiles(s)
    /\ chainCount \in OnChainCounts
    /\ \E k \in 0..MaxPending :
        /\ k > 0 => profiles # {}
        /\ txs = PendingHistory(CHOOSE a \in profiles \cup {""} : a \in profiles \/ profiles = {},
                                chainCount, k)
    /\ queue = <<>>
    /\ req = [r \in Requests |-> IdleRequest]

\* no other request is between its first and its last step
Alone(r) == \A o \in Requests \ {r} : req[o].pc \in {"idle", "done", "failed"}

NextSequential ==
    \E r \in Requests : Alone(r) /\ (LegacyExecute(r) \/ LegacyQuota(r))

SpecSequential == InitSequential /\ [][NextSequential]_vars

\* ------------------------------------------------------ a settled ledger
\* The v1 handlers together with the settlement of the rows they have
\* enqueued.  The worker that settles a row is not among the sources: it moves
\* an enqueued PENDING row to CONFIRMED or FAILED, and a confirmed transaction
\* has raised the wallet's transaction count past its nonce.
SettledStatuses == {"CONFIRMED", "FAILED"}

Settle(i, status) ==
    /\ txs[i].status = "PENDING"
    /\ \E k \in 1..Len(queue) : queue[k] = i
    /\ txs' = [txs EXCEPT ![i].status = status]
    /\ chainCount' =
          IF status = "CONFIRMED" /\ Number(txs[i].relayer_nonce) >= chainCount
          THEN Number(txs[i].relayer_nonce) + 1
          ELSE chainCount
    /\ UNCHANGED <<profiles, quotas, approved, queue, req, store0, approvedProfiles>>

NextSettled ==
    \/ Next
    \/ \E i \in Ids(txs), status \in SettledStatuses : Settle(i, status)

SpecSettled == Init /\ [][NextSettled]_vars

\* ============================================================== claims
\* the (call_nonce, channel_id, signer_address) of a transaction row; the
\* call nonce is the 256-bit number the stored string spells
Triple(row) == <<BigNumberFrom(row.nonce), row.channel_id, row.signer_address>>

RECURSIVE SumEstimates(_, _)
SumEstimates(rows, ids) ==
    IF ids = {} THEN 0
    ELSE LET i == CHOOSE k \in ids : TRUE
         IN rows[i].estimated_gas + SumEstimates(rows, ids \ {i})

\* the address whose quota row a transaction row was debited from
PayerOf(row) ==
    IF row.approved_quota_id = 0 THEN row.universal_profile_address
    ELSE approved[row.approved_quota_id].approver_address

\* an execute request that has got to the end of createTransaction
Created(r) == req[r].handler = "execute" /\ req[r].txId # 0
Rejected(r) ==
    /\ req[r].handler = "execute" /\ req[r].pc = "failed"
    /\ req[r].err \in {"UniqueViolation", "QueryResultError"}
RequestTriple(r) ==
    <<BigNumberFrom(req[r].nonce), extractChannelId(req[r].nonce), req[r].signer>>

\* C1: every quota row has gas_used <= monthly_gas, whatever the number and
\* the interleaving of execute requests.
C1_QuotaWithinAllowance ==
    \A a \in Profiles : quotas[a] # NoRow => quotas[a].gas_used <= quotas[a].monthly_gas

\* C2: the relayer nonces of the transaction rows are pairwise distinct and
\* each row's nonce is one more than that of the row created before it.
C2_NoncesGapFree ==
    /\ \A i, j \in Ids(txs) : i # j => txs[i].relayer_nonce # txs[j].relayer_nonce
    /\ \A i \in Ids(txs) : i > 1 =>
          Number(txs[i].relayer_nonce) = Number(txs[i - 1].relayer_nonce) + 1

\* C3: no two transaction rows share (call_nonce, channel_id, signer_address),
\* the call nonce being a 256-bit number, and of two createTransaction calls
\* with the same triple exactly one succeeds while the other fails on the
\* uniqueness constraint.
C3_TripleUnique ==
    /\ \A i, j \in Ids(txs) : i # j => Triple(txs[i]) # Triple(txs[j])
    /\ \A r1, r2 \in Requests :
          (/\ r1 # r2
           /\ Created(r1) \/ Rejected(r1)
           /\ Created(r2) \/ Rejected(r2)
           /\ RequestTriple(r1) = RequestTriple(r2))
          => \/ Created(r1) /\ Rejected(r2) /\ req[r2].err = "UniqueViolation"
             \/ Created(r2) /\ Rejected(r1) /\ req[r1].err = "UniqueViolation"

\* the debits recorded on the quota and delegation rows are exactly the
\* estimates of the transaction rows they paid for
Accounted ==
    /\ \A a \in Profiles : quotas[a] # NoRow =>
          quotas[a].gas_used =
              (IF store0.quotas[a] = NoRow THEN 0 ELSE store0.quotas[a].gas_used)
              + SumEstimates(txs, {i \in Ids(txs) : PayerOf(txs[i]) = a})
    /\ \A k \in Ids(approved) :
          approved[k].gas_used =
              store0.approved[k].gas_used
              + SumEstimates(txs, {i \in Ids(txs) : txs[i].approved_quota_id = k})

\* C4: the debit and the insert of createTransaction are atomic: the debits
\* on the payer rows always add up to the estimates of the transaction rows,
\* and a createTransaction that fails changes no gas_used and adds no row.
C4_DebitInsertAtomic ==
    /\ []Accounted
    /\ [][\A r \in Requests :
            (req[r].pc = "create" /\ req'[r].pc = "failed")
            => UNCHANGED <<quotas, approved, txs>>]_vars

C4_Witness ==
    \E r1, r2 \in Requests :
        /\ Created(r1) /\ txs[req[r1].txId].approved_quota_id # 0
        /\ req[r2].pc = "failed" /\ req[r2].err = "UniqueViolation"

IsExecute(r) == req[r].handler \in {"execute", "legacy"}
Finished(r) == req[r].pc \in {"done", "failed"}
Enqueued(k) == \E i \in 1..Len(queue) : queue[i] = k

\* C5: an execute request writes to the store only after its parameters were
\* validated, its signer recovered and the permission check passed; a request
\* that fails on its arguments, its signature, its permission or the gas
\* estimate has written nothing and enqueued nothing.
C5_AuthorizationFirst ==
    \A r \in Requests : IsExecute(r) =>
        /\ req[r].wrote => req[r].authorized
        /\ (/\ req[r].pc = "failed"
            /\ req[r].err \in {"ArgumentError", "SignatureInvalid", "Unauthorized",
                               "GasEstimationFailed"})
           => ~req[r].wrote /\ req[r].txId = 0

Min(a, b) == IF a <= b THEN a ELSE b

RECURSIVE SumOver(_, _, _)
SumOver(F(_), rows, ids) ==
    IF ids = {} THEN 0
    ELSE LET i == CHOOSE k \in ids : TRUE
         IN F(rows[i]) + SumOver(F, rows, ids \ {i})

\* the quota row of a delegation's approver among the rows the handler read
ParentOf(parents, aQuota) ==
    {p \in parents : p.universal_profile_address = aQuota.approver_address}
Headroom(parents, aQuota) ==
    IF ParentOf(parents, aQuota) = {} THEN 0
    ELSE LET p == CHOOSE x \in ParentOf(parents, aQuota) : TRUE
         IN p.monthly_gas - p.gas_used

Answered(r) == req[r].handler = "quota" /\ req[r].pc = "done"

\* C6 as stated: the reported total is the own allowance plus, for every
\* delegation granted to the profile, the lesser of the delegation's allowance
\* and the approver's remaining headroom.
C6_TotalIsMinOfAllowanceAndHeadroom ==
    \A r \in Requests : Answered(r) =>
        LET Share(aQuota) == Min(aQuota.monthly_gas, Headroom(req[r].parents, aQuota))
        IN req[r].totalQuota =
              req[r].quota.monthly_gas + SumOver(Share, req[r].aqs, Ids(req[r].aqs))

\* C6 amended: a delegation counts only when its approver has a quota row with
\* gas_used < monthly_gas; it then adds its whole allowance when the approver's
\* headroom covers what is left of the delegation (allowance - used), and the
\* approver's headroom otherwise.
C6_TotalByRemaining ==
    \A r \in Requests : Answered(r) =>
        LET Share(aQuota) ==
                LET h == Headroom(req[r].parents, aQuota) IN
                IF h <= 0 THEN 0
                ELSE IF h >= aQuota.monthly_gas - aQuota.gas_used
                THEN aQuota.monthly_gas ELSE h
        IN req[r].totalQuota =
              req[r].quota.monthly_gas + SumOver(Share, req[r].aqs, Ids(req[r].aqs))

\* a delegation with 5 left of 50 whose approver has 10 left is reported as 50
C6_Witness ==
    \E r \in Requests :
        /\ Answered(r)
        /\ \E i \in Ids(req[r].aqs) :
              LET h == Headroom(req[r].parents, req[r].aqs[i])
                  left == req[r].aqs[i].monthly_gas - req[r].aqs[i].gas_used
              IN /\ h > 0 /\ h >= left /\ h < req[r].aqs[i].monthly_gas
                 /\ req[r].totalQuota = req[r].quota.monthly_gas + req[r].aqs[i].monthly_gas

\* C7 as stated: the reported used is the own used plus the used of every
\* delegation granted to the profile.
C7_UsedCountsEveryDelegation ==
    \A r \in Requests : Answered(r) =>
        LET Used(aQuota) == aQuota.gas_used
        IN req[r].gasUsed =
              req[r].quota.gas_used + SumOver(Used, req[r].aqs, Ids(req[r].aqs))

\* C7 amended: the used of a delegation is counted only when its approver has
\* a quota row with gas_used < monthly_gas.
C7_UsedCountsFundedDelegations ==
    \A r \in Requests : Answered(r) =>
        LET Used(aQuota) ==
                IF Headroom(req[r].parents, aQuota) > 0 THEN aQuota.gas_used ELSE 0
        IN req[r].gasUsed =
              req[r].quota.gas_used + SumOver(Used, req[r].aqs, Ids(req[r].aqs))

\* one delegation of an exhausted approver and one of an approver with headroom
C7_Witness ==
    \E r \in Requests :
        /\ Answered(r)
        /\ \E i, j \in Ids(req[r].aqs) :
              /\ ParentOf(req[r].parents, req[r].aqs[i]) # {}
              /\ Headroom(req[r].parents, req[r].aqs[i]) <= 0
              /\ req[r].aqs[i].gas_used > 0
              /\ Headroom(req[r].parents, req[r].aqs[j]) > 0
              /\ req[r].aqs[j].gas_used > 0

\* a step of a quota request
QuotaStep(r) == req'[r].handler = "quota" /\ req'[r] # req[r]

\* C8 as stated: a quota request leaves every row of the store as it was.
C8_QuotaStatusReadOnly ==
    [][\A r \in Requests : QuotaStep(r) =>
            UNCHANGED <<profiles, quotas, approved, txs>>]_vars

\* C8 amended: a quota request changes no delegation, no transaction and no
\* existing profile or quota row; for a profile without a quota row it adds
\* the profile row and a quota row with the default allowance and used = 0.
C8_QuotaStatusOnlyCreates ==
    [][\A r \in Requests : QuotaStep(r) =>
            /\ UNCHANGED <<approved, txs>>
            /\ profiles \subseteq profiles'
            /\ profiles' \ profiles \subseteq {req[r].address}
            /\ \A a \in Profiles :
                  \/ quotas'[a] = quotas[a]
                  \/ /\ quotas[a] = NoRow
                     /\ a = req[r].address
                     /\ quotas'[a] = Quota(a, DefaultMonthlyGas, 0)]_vars

C8_Witness ==
    \E r \in Requests :
        /\ Answered(r) /\ req[r].wrote
        /\ store0.quotas[req[r].address] = NoRow
        /\ req[r].address \notin store0.profiles
        /\ quotas[req[r].address] # NoRow

Abs(x) == IF x < 0 THEN -x ELSE x

\* C9: a quota request whose timestamp is more than 5000 ms away from the
\* server time is rejected as stale before the signer is recovered, the
\* permission checked or the store touched; one within 5000 ms is not.
C9_FreshnessWindow ==
    \A r \in Requests : (req[r].handler = "quota" /\ req[r].timestamp # 0) =>
        IF Abs(Now - req[r].timestamp) > 5000
        THEN /\ req[r].pc = "failed" /\ req[r].err = "StaleTimestamp"
             /\ req[r].signer = "" /\ ~req[r].authorized /\ ~req[r].wrote
        ELSE req[r].err # "StaleTimestamp"

C9_Witness ==
    \E r1, r2 \in Requests :
        /\ req[r1].handler = "quota" /\ Now - req[r1].timestamp = 6000
        /\ req[r1].err = "StaleTimestamp"
        /\ Answered(r2) /\ Now - req[r2].timestamp = 5000

\* C10: a job is enqueued only for a committed PENDING row, a request that
\* has committed a row has enqueued it by the time it ends, and a request
\* answered with the hash has a row.
C10_HandOff ==
    /\ \A i \in 1..Len(queue) :
          queue[i] \in Ids(txs) /\ txs[queue[i]].status = "PENDING"
    /\ \A r \in Requests : IsExecute(r) =>
          /\ (Finished(r) /\ req[r].txId # 0) => Enqueued(req[r].txId)
          /\ req[r].pc = "done" => req[r].txId \in Ids(txs)

\* the positions of an execute request inside ensureRemainingQuota
ResolverPcs == {"erq_select", "erq_selup", "erq_insup", "erq_insq", "erq_aq", "erq_loop"}
InResolver(r) == req[r].handler = "execute" /\ req[r].pc \in ResolverPcs
\* the step with which ensureRemainingQuota returns or throws
ResolverEnds(r) == InResolver(r) /\ req'[r].pc \notin ResolverPcs
\* the step with which createTransaction commits
Commits(r) == At(r, "execute", "create") /\ req'[r].pc = "enqueue"

\* C11: a quota row created lazily has the default allowance, and no request
\* fails because a concurrent request inserted the profile or the quota row
\* first.
C11_LazyCreationSafe ==
    /\ \A a \in Profiles : (store0.quotas[a] = NoRow /\ quotas[a] # NoRow) =>
          quotas[a].monthly_gas = DefaultMonthlyGas
    /\ \A r \in Requests : req[r].err # "InsertConflict"

\* C12: the quota row ensureRemainingQuota returns has
\* gas_used + estimatedGas <= monthly_gas when it returns, a lazily created
\* row included, and a walk of the delegations that finds no payer fails with
\* NoGasError.
C12_PayerHasHeadroom ==
    [][\A r \in Requests : ResolverEnds(r) =>
            IF req'[r].pc = "nonce"
            THEN req'[r].quota.gas_used + req[r].est <= req'[r].quota.monthly_gas
            ELSE req[r].pc \in {"erq_aq", "erq_loop"} => req'[r].err = "NoGasError"]_vars

\* the first delegation, in stored order, with room of its own for the
\* estimate and an approver whose quota row covers it; 0 when there is none
RECURSIVE FirstPassing(_, _, _, _)
FirstPassing(aqs, i, qs, est) ==
    IF i > Len(aqs) THEN 0
    ELSE IF /\ aqs[i].gas_used + est < aqs[i].monthly_gas
            /\ qs[aqs[i].approver_address] # NoRow
            /\ qs[aqs[i].approver_address].gas_used + est
                   <= qs[aqs[i].approver_address].monthly_gas
    THEN i
    ELSE FirstPassing(aqs, i + 1, qs, est)

\* C13: when the own quota cannot cover the estimate, the walk of the
\* delegations ends with the approver's quota of the first delegation that
\* passes both tests, and with NoGasError exactly when no delegation passes.
C13_FirstPassingDelegation ==
    [][\A r \in Requests :
          (ResolverEnds(r) /\ req[r].pc \in {"erq_aq", "erq_loop"}) =>
            LET aqs == ApprovedFor(approved, req[r].address)
                k == FirstPassing(aqs, 1, quotas, req[r].est)
            IN IF k = 0
               THEN req'[r].pc = "failed" /\ req'[r].err = "NoGasError"
               ELSE /\ req'[r].pc = "nonce"
                    /\ req'[r].quota = quotas[aqs[k].approver_address]]_vars

\* C14: an existing own quota row with gas_used + estimatedGas <= monthly_gas
\* is returned by ensureRemainingQuota at once, no delegation is read, and the
\* createTransaction that follows raises its gas_used by the estimate.
C14_OwnQuotaPays ==
    [][\A r \in Requests :
          LET a == req[r].address IN
          /\ (/\ At(r, "execute", "erq_select") /\ req'[r] # req[r]
              /\ quotas[a] # NoRow
              /\ quotas[a].gas_used + req[r].est <= quotas[a].monthly_gas)
             => /\ req'[r].pc = "nonce"
                /\ req'[r].quota = quotas[a]
                /\ req'[r].aqs = <<>>
          /\ (Commits(r) /\ req[r].quota.universal_profile_address = a)
             => quotas'[a].gas_used = quotas[a].gas_used + req[r].est]_vars

\* own quota 100/90 and an estimate of 5: the own quota pays and is at 95
C14_Witness ==
    \E r \in Requests :
        /\ Created(r) /\ req[r].est = 5
        /\ store0.quotas[req[r].address] = Quota(req[r].address, 100, 90)
        /\ PayerOf(txs[req[r].txId]) = req[r].address
        /\ quotas[req[r].address].gas_used = 95

\* the delegation rows from approver to approvedAddr
DelegationIds(rows, approver, approvedAddr) ==
    {k \in Ids(rows) : /\ rows[k].approver_address = approver
                       /\ rows[k].approved_address = approvedAddr}

\* C15 as stated: createTransaction raises gas_used of one row only, the own
\* quota row when the own quota pays and the delegation row when a delegation
\* pays, and leaves every other quota and delegation row as it was.
C15_DebitsOneRow ==
    [][\A r \in Requests : Commits(r) =>
          LET a == req[r].address
              payer == req[r].quota.universal_profile_address
          IN IF payer = a
             THEN /\ quotas' = [quotas EXCEPT ![a].gas_used = @ + req[r].est]
                  /\ approved' = approved
             ELSE /\ quotas' = quotas
                  /\ \E k \in DelegationIds(approved, payer, a) :
                        approved' = [approved EXCEPT ![k].gas_used = @ + req[r].est]]_vars

\* C15 amended: createTransaction raises gas_used of the quota row that
\* ensureRemainingQuota returned and of the delegation row, if there is one,
\* from that row's profile to the requesting profile, each by the estimate,
\* and leaves every other quota and delegation row as it was.
C15_DebitsPayerAndItsDelegation ==
    [][\A r \in Requests : Commits(r) =>
          LET a == req[r].address
              payer == req[r].quota.universal_profile_address
          IN /\ quotas' = [quotas EXCEPT ![payer].gas_used = @ + req[r].est]
             /\ \A k \in Ids(approved) :
                   approved'[k] =
                       IF k \in DelegationIds(approved, payer, a)
                       THEN [approved[k] EXCEPT !.gas_used = @ + req[r].est]
                       ELSE approved[k]
             /\ Len(approved') = Len(approved)]_vars

\* a delegation has paid: its row and its approver's quota row were raised,
\* while another delegation to the same profile was not
C15_Witness ==
    \E r \in Requests :
        /\ Created(r)
        /\ LET t == txs[req[r].txId]
               k == t.approved_quota_id
           IN /\ k # 0
              /\ PayerOf(t) # t.universal_profile_address
              /\ quotas[PayerOf(t)].gas_used > store0.quotas[PayerOf(t)].gas_used
              /\ approved[k].gas_used > store0.approved[k].gas_used
              /\ \E j \in Ids(approved) :
                    /\ j # k
                    /\ approved[j].approved_address = t.universal_profile_address
                    /\ approved[j].gas_used = store0.approved[j].gas_used

\* C16: when a delegation pays, createTransaction raises gas_used of the
\* approver's quota row and of the delegation row by the estimate, leaves the
\* requesting profile's own quota row as it was, and the transaction row
\* refers to the delegation.
C16_DelegationDebitsApprover ==
    [][\A r \in Requests :
          (Commits(r) /\ req[r].quota.universal_profile_address # req[r].address) =>
            LET a == req[r].address
                payer == req[r].quota.universal_profile_address
            IN /\ quotas'[payer].gas_used = quotas[payer].gas_used + req[r].est
               /\ quotas'[a] = quotas[a]
               /\ \E k \in DelegationIds(approved, payer, a) :
                     /\ approved'[k].gas_used = approved[k].gas_used + req[r].est
                     /\ txs'[Len(txs')].approved_quota_id = k]_vars

\* own quota 100/100, delegation 50/10 of an approver at 200/190, estimate 5:
\* the delegation is at 15, the approver at 195, the own quota still at 100
C16_Witness ==
    \E r \in Requests :
        /\ Created(r) /\ req[r].est = 5 /\ req[r].address = "upA"
        /\ store0.quotas["upA"] = Quota("upA", 100, 100)
        /\ store0.quotas["upB"] = Quota("upB", 200, 190)
        /\ store0.approved = <<Approved("upB", "upA", 50, 10)>>
        /\ txs[req[r].txId].approved_quota_id = 1
        /\ approved[1].gas_used = 15
        /\ quotas["upB"].gas_used = 195
        /\ quotas["upA"].gas_used = 100

\* the numerically greatest relayer_nonce among the PENDING rows of the wallet
MaxPendingNonce(rows) ==
    CHOOSE n \in {Number(rows[i].relayer_nonce) : i \in PendingIds(rows)} :
        \A i \in PendingIds(rows) : Number(rows[i].relayer_nonce) <= n

\* C17: in a sequential execution the wallet nonce computed for a request is
\* the numerically greatest relayer_nonce among the PENDING rows plus one when
\* there is such a row, and the wallet's transaction count when there is none.
C17_NextRelayerNonce ==
    \A r \in Requests : At(r, "legacy", "tx") =>
        req[r].walletNonce =
            IF PendingIds(txs) # {} THEN MaxPendingNonce(txs) + 1 ELSE chainCount

\* C18: transaction rows are only ever appended, one at a time, by the
\* createTransaction of a request, with status PENDING, gas_used 0, the
\* address of the relayer wallet and the wallet nonce computed for that
\* request; no step changes a row that is there.
C18_RowsEnterPending ==
    [][/\ Len(txs') \in {Len(txs), Len(txs) + 1}
       /\ \A i \in Ids(txs) : txs'[i] = txs[i]
       /\ Len(txs') = Len(txs) + 1 =>
             \E r \in Requests :
                 /\ req[r].pc \in {"create", "tx"}
                 /\ req'[r].txId = Len(txs')
                 /\ LET row == txs'[Len(txs')]
                    IN /\ row.status = "PENDING"
                       /\ row.gas_used = 0
                       /\ row.relayer_address = WalletAddress
                       /\ row.relayer_nonce = ToStr(req[r].walletNonce)]_vars

\* an execute request that has got past extractChannelId
Extracted(r) ==
    \/ req[r].handler = "execute" /\ req[r].pc \in {"hash", "create", "enqueue"}
    \/ req[r].handler = "legacy"
       /\ req[r].pc \in {"count", "tx", "hash", "populate", "sign", "enqueue"}

\* C19: the channel id of a nonce is the number spelled by its high 128 bits,
\* whatever its low 128 bits; a nonce whose high part is 2^31 or more never
\* gets a row, its request fails at extractChannelId (2^53 or more) or at the
\* insert (below 2^53), and no row holds a channel id other than that number.
C19_ChannelIsHighHalf ==
    /\ \A i \in Ids(txs) :
          /\ \A b \in txs[i].nonce.hi : b < IntBits
          /\ txs[i].channel_id = IntColumn(txs[i].nonce.hi)
    /\ \A r \in Requests :
          /\ Extracted(r) => req[r].channelId = req[r].nonce.hi
          /\ req[r].err = "NumericFault" => \E b \in req[r].nonce.hi : b >= SafeBits
          /\ req[r].err = "OutOfRange" => \E b \in req[r].nonce.hi : b >= IntBits
          /\ (IsExecute(r) /\ \E b \in req[r].nonce.hi : b >= IntBits) =>
                /\ req[r].txId = 0
                /\ req[r].pc # "done"

\* (2 << 128) | 1 is stored with channel 2, 2^31 - 1 with every low bit set
\* is stored as 2147483647, and a request with channel 2^31 or 2^53 has failed
C19_Witness ==
    \E r1, r2 \in Requests :
        /\ Created(r1)
        /\ \/ /\ req[r1].nonce = NonceString("dec", {1}, {0})
              /\ txs[req[r1].txId].channel_id = 2
           \/ /\ req[r1].nonce = NonceString("dec", 0..30, 0..127)
              /\ txs[req[r1].txId].channel_id = 2147483647
        /\ req[r2].err \in {"NumericFault", "OutOfRange"}

\* C20: every delegation row has gas_used <= monthly_gas.
C20_DelegationWithinAllowance ==
    \A k \in Ids(approved) : approved[k].gas_used <= approved[k].monthly_gas

\* a row with the (call_nonce, channel_id, signer_address) of request r, the
\* call nonce being the number and not its spelling
SameTriple(row, r) ==
    /\ BigNumberFrom(row.nonce) = BigNumberFrom(req[r].nonce)
    /\ row.signer_address = req[r].signer
    /\ ~OutOfRange(req[r].nonce.hi)
    /\ row.channel_id = IntColumn(req[r].nonce.hi)

\* request r repeats the triple of a row of another profile
Replays(r) ==
    /\ req[r].handler = "execute"
    /\ \E i \in Ids(txs) :
          /\ SameTriple(txs[i], r)
          /\ txs[i].universal_profile_address # req[r].address

\* C21: an execute request whose (call_nonce, channel_id, signer_address) is that
\* of a row of another profile, whatever the status of the row, adds no
\* transaction row, changes no quota row and no delegation row that is there,
\* is never enqueued, and fails on the uniqueness constraint if it gets to
\* createTransaction.
C21_ReplayAcrossProfiles ==
    [][\A r \in Requests : (Replays(r) /\ req'[r] # req[r]) =>
          /\ txs' = txs
          /\ approved' = approved
          /\ \A a \in Profiles : quotas[a] # NoRow => quotas'[a] = quotas[a]
          /\ req'[r].pc \notin {"enqueue", "done"}
          /\ req[r].pc = "create" =>
                req'[r].pc = "failed" /\ req'[r].err = "UniqueViolation"]_vars

====
